---- MODULE Spec2Model ----
(***************************************************************************)
(* Model of src/app.py: Apriori frequent-itemset mining, association-rule  *)
(* generation, support-band filtering, item scoring and the five-tier      *)
(* builder.                                                                *)
(*                                                                         *)
(* Conventions                                                             *)
(*  - An item is a string; ItemOrder lists the item universe in natural    *)
(*    string order, so "x sorts before y" is Rank(x) < Rank(y).            *)
(*  - A Python dict is a sequence of <<key, value>> pairs with distinct    *)
(*    keys, in insertion order (dicts iterate in insertion order).         *)
(*  - A Python float is an exact rational <<p, q>> in lowest terms with    *)
(*    q > 0; rounding of binary floating point is not modelled.            *)
(*  - Iterating a Python set visits its members in an order fixed by the   *)
(*    members' hashes, which for strings changes from process to process.  *)
(*    hseed is the order of the current run: a permutation of the items;   *)
(*    a set of items is visited in hseed order, a set of itemsets in the   *)
(*    order of the codes hseed gives them.  Every specification chooses    *)
(*    hseed nondeterministically.                                          *)
(***************************************************************************)
EXTENDS Integers, Sequences, FiniteSets, TLC

VARIABLES transactions, params, hseed, pc, args, ap, rules,
          freq_main, abs_main, rules_main, freq_pot, abs_pot, rules_pot,
          tiers, run, prev

vars == <<transactions, params, hseed, pc, args, ap, rules,
          freq_main, abs_main, rules_main, freq_pot, abs_pot, rules_pot,
          tiers, run, prev>>

(* ---------------------------- bounds ---------------------------------- *)
MaxBaskets ==
  2
MaxMainRules ==
  2
MaxPotRules ==
  1

(* ------------------------- item universe ------------------------------ *)
ItemOrder ==
  <<"a", "b", "c", "d", "e", "f", "g", "h", "i", "j", "k", "l",
    "m", "n", "o", "p", "q", "r", "s", "t", "u", "v", "w", "x">>

AllItems ==
  {ItemOrder[i] : i \in 1..Len(ItemOrder)}

BasketItems ==
  {"a", "b", "c"}

Rank(x) ==
  CHOOSE i \in 1..Len(ItemOrder) : ItemOrder[i] = x

StrLess(x, y) ==
  Rank(x) < Rank(y)

(* sorted(S) for a collection of strings *)
Sorted(S) ==
  SelectSeq(ItemOrder, LAMBDA x : x \in S)

SeqToSet(s) ==
  {s[i] : i \in 1..Len(s)}

Max2(a, b) ==
  IF a >= b THEN a ELSE b

(* e, after v has been evaluated: accumulators are computed step by step, as the
   code computes them, instead of as one nested expression *)
Then(v, e) ==
  IF v = v THEN e ELSE e

(* ---------------------------- rationals ------------------------------- *)
RECURSIVE GCD(_, _)
GCD(a, b) ==
  IF b = 0 THEN a ELSE GCD(b, a % b)

Rat(p, q) ==
  LET g == GCD(p, q) IN IF g = 0 THEN <<0, 1>> ELSE <<p \div g, q \div g>>

RZero ==
  <<0, 1>>

ROne ==
  <<1, 1>>

RAdd(x, y) ==
  Rat(x[1] * y[2] + y[1] * x[2], x[2] * y[2])

RMul(x, y) ==
  Rat(x[1] * y[1], x[2] * y[2])

(* x / y for y # 0 *)
RDiv(x, y) ==
  Rat(x[1] * y[2], x[2] * y[1])

RLeq(x, y) ==
  x[1] * y[2] <= y[1] * x[2]

RLess(x, y) ==
  x[1] * y[2] < y[1] * x[2]

(* int(x) for x >= 0 *)
RFloor(x) ==
  x[1] \div x[2]

(* ------------------------------ dicts --------------------------------- *)
DKeys(d) ==
  {d[i][1] : i \in 1..Len(d)}

DHas(d, key) ==
  \E i \in 1..Len(d) : d[i][1] = key

(* d.get(key, default) *)
DGet(d, key, default) ==
  IF DHas(d, key)
  THEN d[CHOOSE i \in 1..Len(d) : d[i][1] = key][2]
  ELSE default

(* d[key] = val: in place for a present key, appended for a new one *)
DSet(d, key, val) ==
  IF DHas(d, key)
  THEN [i \in 1..Len(d) |-> IF d[i][1] = key THEN <<key, val>> ELSE d[i]]
  ELSE Append(d, <<key, val>>)

(* d.update(e) *)
RECURSIVE DUpdate(_, _)
DUpdate(d, e) ==
  IF e = <<>> THEN d
  ELSE DUpdate(DSet(d, e[1][1], e[1][2]), Tail(e))

(* ------------------------- set iteration ------------------------------ *)
(* for x in S, S a set of items *)
SetIter(S, h) ==
  SelectSeq(h, LAMBDA x : x \in S)

HRank(x, h) ==
  CHOOSE i \in 1..Len(h) : h[i] = x

RECURSIVE Pow2(_)
Pow2(e) ==
  IF e = 0 THEN 1 ELSE 2 * Pow2(e - 1)

RECURSIVE SumOver(_, _, _)
SumOver(S, h, acc) ==
  IF S = {} THEN acc
  ELSE LET x == CHOOSE y \in S : TRUE
       IN SumOver(S \ {x}, h, acc + Pow2(Len(h) - HRank(x, h)))

ItemsetCode(c, h) ==
  SumOver(c, h, 0)

(* for c in C, C a set of itemsets *)
RECURSIVE CandIter(_, _)
CandIter(C, h) ==
  IF C = {} THEN <<>>
  ELSE LET c == CHOOSE x \in C :
                  \A y \in C : ItemsetCode(x, h) >= ItemsetCode(y, h)
       IN <<c>> \o CandIter(C \ {c}, h)

(* ------------------------------ apriori ------------------------------- *)
(* item_counts[key] += 1 on a defaultdict(int) *)
Incr(d, key) ==
  DSet(d, key, DGet(d, key, 0) + 1)

RECURSIVE CountItems(_, _)
CountItems(items, d) ==
  IF items = <<>> THEN d
  ELSE CountItems(Tail(items), Incr(d, {Head(items)}))

(* lines 109-111 *)
RECURSIVE ItemCounts(_, _, _)
ItemCounts(T, h, d) ==
  IF T = <<>> THEN d
  ELSE ItemCounts(Tail(T), h, CountItems(SetIter(Head(T), h), d))

(* max(1, int(min_support * n)) *)
MinCount(min_support, n) ==
  Max2(1, RFloor(RMul(min_support, <<n, 1>>)))

(* the filter with > where the code has >= *)
FilterCountsStrict(d, min_count) ==
  SelectSeq(d, LAMBDA e : e[2] > min_count)

(* {i: c for i, c in d.items() if c >= min_count} *)
FilterCounts(d, min_count) ==
  SelectSeq(d, LAMBDA e : e[2] >= min_count)

(* {i: c / n for i, c in d.items()}; evaluated only when d is non-empty *)
ToSupport(d, n) ==
  [i \in 1..Len(d) |-> <<d[i][1], Rat(d[i][2], n)>>]

(* c / n raises ZeroDivisionError when n = 0 and some entry is divided *)
DivError(d, n) ==
  n = 0 /\ d # <<>>

(* line 113 filtering with > while line 114 filters with >= *)
AprioriInitFreqStrict(T, min_support, h) ==
  LET n == Len(T)
      min_count == MinCount(min_support, n)
      item_counts == ItemCounts(T, h, <<>>)
      kept == SelectSeq(item_counts, LAMBDA e : e[2] >= min_count)
      keptf == SelectSeq(item_counts, LAMBDA e : e[2] > min_count)
  IN [n |-> n, min_count |-> min_count,
      freq |-> IF n = 0 THEN <<>>
               ELSE [i \in 1..Len(keptf) |-> <<keptf[i][1], Rat(keptf[i][2], n)>>],
      abs_counts |-> kept, L |-> kept, k |-> 2,
      err |-> FALSE,
      at |-> "while"]

(* lines 104-116 *)
AprioriInit(T, min_support, h) ==
  LET n == Len(T)
      min_count == MinCount(min_support, n)
      item_counts == ItemCounts(T, h, <<>>)
      kept == FilterCounts(item_counts, min_count)
  IN [n |-> n, min_count |-> min_count,
      freq |-> IF DivError(kept, n) THEN <<>> ELSE ToSupport(kept, n),
      abs_counts |-> kept, L |-> kept, k |-> 2,
      err |-> DivError(kept, n),
      at |-> IF DivError(kept, n) THEN "raised" ELSE "while"]

(* lines 120-124 *)
Candidates(L, k) ==
  {c \in {i1 \cup i2 : i1 \in DKeys(L), i2 \in DKeys(L)} : Cardinality(c) = k}

RECURSIVE CountIn(_, _, _)
CountIn(cands, t, d) ==
  IF cands = <<>> THEN d
  ELSE CountIn(Tail(cands), t,
               IF Head(cands) \subseteq t THEN Incr(d, Head(cands)) ELSE d)

(* lines 126-130 *)
RECURSIVE NextCounts(_, _, _)
NextCounts(T, cands, d) ==
  IF T = <<>> THEN d
  ELSE NextCounts(Tail(T), cands, CountIn(cands, Head(T), d))

(* the loop body without the break of lines 138-139 *)
AprioriLevelNoBreak(st, T, h) ==
  IF st.L = <<>> THEN [st EXCEPT !.at = "return"]
  ELSE LET cands == CandIter(Candidates(st.L, st.k), h)
           next_counts == NextCounts(T, cands, <<>>)
           L2 == SelectSeq(next_counts, LAMBDA e : e[2] >= st.min_count)
       IN [st EXCEPT !.L = L2,
                     !.freq = DUpdate(@, [i \in 1..Len(L2) |->
                                           <<L2[i][1], Rat(L2[i][2], st.n)>>]),
                     !.abs_counts = DUpdate(@, L2),
                     !.k = @ + 1]

(* lines 119-143: the loop test and one pass of the loop body *)
AprioriLevel(st, T, h) ==
  IF st.L = <<>> THEN [st EXCEPT !.at = "return"]
  ELSE LET cands == CandIter(Candidates(st.L, st.k), h)
           next_counts == NextCounts(T, cands, <<>>)
           L2 == FilterCounts(next_counts, st.min_count)
       IN IF L2 = <<>> THEN [st EXCEPT !.L = L2, !.at = "return"]
          ELSE IF DivError(L2, st.n)
               THEN [st EXCEPT !.L = L2, !.err = TRUE, !.at = "raised"]
               ELSE [st EXCEPT !.L = L2,
                               !.freq = DUpdate(@, ToSupport(L2, st.n)),
                               !.abs_counts = DUpdate(@, L2),
                               !.k = @ + 1]

RECURSIVE AprioriLoop(_, _, _)
AprioriLoop(st, T, h) ==
  IF st.at = "while" THEN AprioriLoop(AprioriLevel(st, T, h), T, h) ELSE st

(* apriori(transactions, min_support), lines 102-145 *)
Apriori(T, min_support, h) ==
  AprioriLoop(AprioriInit(T, min_support, h), T, h)

(* --------------------------- generate_rules --------------------------- *)
(* itertools.combinations(s, r): r-subsequences in lexicographic position order *)
RECURSIVE Combinations(_, _)
Combinations(s, r) ==
  IF r = 0 THEN << <<>> >>
  ELSE IF Len(s) < r THEN <<>>
  ELSE LET with == Combinations(Tail(s), r - 1)
       IN [i \in 1..Len(with) |-> <<Head(s)>> \o with[i]]
          \o Combinations(Tail(s), r)

(* lines 166-167: every antecedent tuple of one itemset, in the order visited *)
RECURSIVE Antecedents(_, _)
Antecedents(s, r) ==
  IF r >= Len(s) THEN <<>>
  ELSE Combinations(s, r) \o Antecedents(s, r + 1)

(* lift computed as sup_xy / sup_y, without the antecedent's support *)
SplitRuleLiftWrong(freq, itemset, sup_xy, Atuple, min_conf, min_lift) ==
  LET A == SeqToSet(Atuple)
      B == itemset \ A
      sup_x == DGet(freq, A, RZero)
      sup_y == DGet(freq, B, RZero)
  IN IF sup_x = RZero \/ sup_y = RZero
     THEN [rules |-> <<>>, skipped |-> 1]
     ELSE LET conf == RDiv(sup_xy, sup_x)
              lift == RDiv(sup_xy, sup_y)
          IN IF RLeq(min_conf, conf) /\ RLeq(min_lift, lift)
             THEN [rules |-> << <<Sorted(A), Sorted(B), sup_xy, conf, lift>> >>,
                   skipped |-> 0]
             ELSE [rules |-> <<>>, skipped |-> 0]

(* lines 168-177 for one split: the rules it appends and whether it was skipped *)
SplitRule(freq, itemset, sup_xy, Atuple, min_conf, min_lift) ==
  LET A == SeqToSet(Atuple)
      B == itemset \ A
      sup_x == DGet(freq, A, RZero)
      sup_y == DGet(freq, B, RZero)
  IN IF sup_x = RZero \/ sup_y = RZero
     THEN [rules |-> <<>>, skipped |-> 1]
     ELSE LET conf == RDiv(sup_xy, sup_x)
              lift == RDiv(sup_xy, RMul(sup_x, sup_y))
          IN IF RLeq(min_conf, conf) /\ RLeq(min_lift, lift)
             THEN [rules |-> << <<Sorted(A), Sorted(B), sup_xy, conf, lift>> >>,
                   skipped |-> 0]
             ELSE [rules |-> <<>>, skipped |-> 0]

RECURSIVE ItemsetRules(_, _, _, _, _, _, _)
ItemsetRules(freq, itemset, sup_xy, ants, min_conf, min_lift, acc) ==
  IF ants = <<>> THEN acc
  ELSE LET one == SplitRule(freq, itemset, sup_xy, Head(ants), min_conf, min_lift)
       IN ItemsetRules(freq, itemset, sup_xy, Tail(ants), min_conf, min_lift,
                       [rules |-> acc.rules \o one.rules,
                        skipped |-> acc.skipped + one.skipped])

RECURSIVE RulesLoop(_, _, _, _, _, _, _)
RulesLoop(freq, i, min_conf, min_lift, filter_exact_2_only, h, acc) ==
  IF i > Len(freq) THEN acc
  ELSE LET itemset == freq[i][1]
           size == Cardinality(itemset)
       IN IF size < 2 \/ (filter_exact_2_only /\ size # 2)
          THEN RulesLoop(freq, i + 1, min_conf, min_lift, filter_exact_2_only, h, acc)
          ELSE RulesLoop(freq, i + 1, min_conf, min_lift, filter_exact_2_only, h,
                         ItemsetRules(freq, itemset, freq[i][2],
                                      Antecedents(SetIter(itemset, h), 1),
                                      min_conf, min_lift, acc))

(* generate_rules(freq, abs_counts, min_conf, min_lift, filter_exact_2_only),
   lines 148-178; skipped counts the splits that took the branch of line 173 *)
GenerateRules(freq, min_conf, min_lift, filter_exact_2_only, h) ==
  RulesLoop(freq, 1, min_conf, min_lift, filter_exact_2_only, h,
            [rules |-> <<>>, skipped |-> 0])

(* rules_from_freq(freq, abs_counts, params, potential), lines 312-344 *)
RulesFromFreq(freq, p, potential, h) ==
  LET min_sup == IF potential THEN p.longtail_min_support ELSE p.min_support
      max_sup == IF potential THEN p.longtail_max_support ELSE ROne
      filter_2 == ~potential
      gen == GenerateRules(freq, p.min_confidence, p.min_lift, filter_2, h)
  IN SelectSeq(gen.rules, LAMBDA r : RLeq(min_sup, r[3]) /\ RLeq(r[3], max_sup))

(* ------------------------------ build_tiers --------------------------- *)
Tier1Cap ==
  3
TierCap ==
  5

(* compute_item_support(freq), lines 185-192 *)
RECURSIVE ComputeItemSupport(_, _)
ComputeItemSupport(freq, acc) ==
  IF freq = <<>> THEN acc
  ELSE ComputeItemSupport(Tail(freq),
         IF Cardinality(freq[1][1]) = 1
         THEN DSet(acc, CHOOSE x \in freq[1][1] : TRUE, freq[1][2])
         ELSE acc)

(* sup * conf * lift of one rule *)
RuleScore(r) ==
  RMul(RMul(r[3], r[4]), r[5])

(* scores[item] += s on a defaultdict(float), for each item of a sequence *)
RECURSIVE AddScores(_, _, _)
AddScores(d, items, s) ==
  IF items = <<>> THEN d
  ELSE LET d2 == DSet(d, Head(items), RAdd(DGet(d, Head(items), RZero), s))
       IN Then(d2, AddScores(d2, Tail(items), s))

(* compute_item_scores(rules), lines 195-202 *)
RECURSIVE ComputeItemScores(_, _, _)
ComputeItemScores(rs, h, acc) ==
  IF rs = <<>> THEN acc
  ELSE LET acc2 == AddScores(acc,
                     SetIter(SeqToSet(rs[1][1]) \cup SeqToSet(rs[1][2]), h),
                     RuleScore(rs[1]))
       IN Then(acc2, ComputeItemScores(Tail(rs), h, acc2))

(* sorted(d.items(), key=lambda x: x[1], reverse=True): stable, so entries of
   equal score keep the order they have in d *)
RECURSIVE SortedByScore(_, _)
SortedByScore(d, acc) ==
  IF d = <<>> THEN acc
  ELSE LET e == Head(d)
           pos == Cardinality({i \in 1..Len(acc) : RLeq(e[2], acc[i][2])})
           acc2 == SubSeq(acc, 1, pos) \o <<e>> \o SubSeq(acc, pos + 1, Len(acc))
       IN Then(acc2, SortedByScore(Tail(d), acc2))

(* the slice one past the cap *)
TopNOneMore(d, n) ==
  LET ranked == SortedByScore(d, <<>>)
      m == IF Len(ranked) < n + 1 THEN Len(ranked) ELSE n + 1
  IN [i \in 1..m |-> ranked[i][1]]

(* [name for name, _ in sorted(...)[:n]] *)
TopN(d, n) ==
  LET ranked == SortedByScore(d, <<>>)
      m == IF Len(ranked) < n THEN Len(ranked) ELSE n
  IN [i \in 1..m |-> ranked[i][1]]

(* lines 250-256 *)
RECURSIVE PartnerScores(_, _, _, _)
PartnerScores(rs, tier1_set, h, acc) ==
  IF rs = <<>> THEN acc
  ELSE LET rule_items == SeqToSet(rs[1][1]) \cup SeqToSet(rs[1][2])
           acc2 == IF tier1_set \cap rule_items # {}
                   THEN AddScores(acc, SetIter(rule_items \ tier1_set, h),
                                  RuleScore(rs[1]))
                   ELSE acc
       IN Then(acc2, PartnerScores(Tail(rs), tier1_set, h, acc2))

(* lines 286-290: the consequent tuple is visited in its own order *)
RECURSIVE ConsequentScores(_, _)
ConsequentScores(rs, acc) ==
  IF rs = <<>> THEN acc
  ELSE LET acc2 == AddScores(acc, rs[1][2], RuleScore(rs[1]))
       IN Then(acc2, ConsequentScores(Tail(rs), acc2))

(* {item: score for item, score in d.items() if item not in exclude} *)
Excluding(d, exclude) ==
  SelectSeq(d, LAMBDA e : e[1] \notin exclude)

(* tier 3 excluding tier 1 only *)
Tier3CandidatesForgetTier2(item_scores_all, tier1_set, tier2_items) ==
  Excluding(item_scores_all, tier1_set)

(* lines 263-268 *)
Tier3Candidates(item_scores_all, tier1_set, tier2_items) ==
  Excluding(item_scores_all, tier1_set \cup SeqToSet(tier2_items))

(* tier 1 ranked by single-item support instead of the rule scores *)
Tier1RankingBySupport(item_scores_all, item_support) ==
  item_support

(* line 245: tier 1 ranks the rule scores; item_support is computed and unused *)
Tier1Ranking(item_scores_all, item_support) ==
  item_scores_all

(* build_tiers(rules_main, rules_potential, freq_main, freq_potential, params),
   lines 217-309 *)
BuildTiers(rm, rp, fm, fp, h) ==
  LET freq_combined == DUpdate(DUpdate(<<>>, fp), fm)
      item_support == ComputeItemSupport(freq_combined, <<>>)
      rules_all == rm \o rp
      item_scores_all == ComputeItemScores(rules_all, h, <<>>)
      tier1_items == TopN(Tier1Ranking(item_scores_all, item_support), Tier1Cap)
      tier1_set == SeqToSet(tier1_items)
      partner_scores == PartnerScores(rules_all, tier1_set, h, <<>>)
      tier2_items == TopN(partner_scores, TierCap)
      exclude_tier12 == tier1_set \cup SeqToSet(tier2_items)
      tier3_items == TopN(Tier3Candidates(item_scores_all, tier1_set, tier2_items),
                          TierCap)
      pot_scores == ComputeItemScores(rp, h, <<>>)
      exclude_tier123 == exclude_tier12 \cup SeqToSet(tier3_items)
      tier4_items == TopN(Excluding(pot_scores, exclude_tier123), TierCap)
      consequent_scores == ConsequentScores(rules_all, <<>>)
      exclude_prev == exclude_tier123 \cup SeqToSet(tier4_items)
      tier5_items == TopN(Excluding(consequent_scores, exclude_prev), TierCap)
  IN [tier1 |-> tier1_items, tier2 |-> tier2_items, tier3 |-> tier3_items,
      tier4 |-> tier4_items, tier5 |-> tier5_items]

(* ------------------------------ inputs -------------------------------- *)
RECURSIVE SeqsUpTo(_, _)
SeqsUpTo(S, n) ==
  IF n = 0 THEN {<<>>}
  ELSE LET shorter == SeqsUpTo(S, n - 1)
       IN shorter \cup {Append(s, x) : s \in shorter, x \in S}

RECURSIVE Perms(_)
Perms(S) ==
  IF S = {} THEN {<<>>}
  ELSE UNION {{<<x>> \o p : p \in Perms(S \ {x})} : x \in S}

(* a basket is a set of items; apriori accepts the empty set too *)
Baskets ==
  SUBSET BasketItems

HashSeeds ==
  Perms(BasketItems)

MinSupports ==
  {<<0, 1>>, <<1, 100>>, <<1, 2>>, <<2, 3>>, <<1, 1>>}

Thresholds ==
  {[min_conf |-> <<0, 1>>, min_lift |-> <<0, 1>>],
   [min_conf |-> <<3, 10>>, min_lift |-> <<3, 2>>],
   [min_conf |-> <<1, 2>>, min_lift |-> <<9, 10>>],
   [min_conf |-> <<1, 1>>, min_lift |-> <<1, 1>>]}

(* AprioriParams(), lines 69-75 *)
DefaultParams ==
  [min_support |-> <<1, 100>>, min_confidence |-> <<3, 10>>,
   min_lift |-> <<3, 2>>, longtail_min_support |-> <<2, 1000>>,
   longtail_max_support |-> <<1, 100>>]

NoTiers ==
  [tier1 |-> <<>>, tier2 |-> <<>>, tier3 |-> <<>>, tier4 |-> <<>>, tier5 |-> <<>>]

NoCall ==
  [min_support |-> RZero, min_conf |-> RZero, min_lift |-> RZero,
   filter_exact_2_only |-> FALSE]

NoApriori ==
  [n |-> 0, min_count |-> 1, freq |-> <<>>, abs_counts |-> <<>>, L |-> <<>>,
   k |-> 2, err |-> FALSE, at |-> "idle"]

NoRules ==
  [rules |-> <<>>, skipped |-> 0]

(* ------------- apriori and generate_rules, called directly ------------- *)
InitApriori ==
  /\ transactions \in SeqsUpTo(Baskets, MaxBaskets)
  /\ hseed \in HashSeeds
  /\ params = DefaultParams
  /\ pc = "call"
  /\ args = NoCall
  /\ ap = NoApriori
  /\ rules = NoRules
  /\ freq_main = <<>> /\ abs_main = <<>> /\ rules_main = <<>>
  /\ freq_pot = <<>> /\ abs_pot = <<>> /\ rules_pot = <<>>
  /\ tiers = NoTiers
  /\ run = 1
  /\ prev = <<>>

(* apriori is entered: lines 104-116 *)
AprioriCall ==
  /\ pc = "call"
  /\ \E ms \in MinSupports :
       /\ args' = [args EXCEPT !.min_support = ms]
       /\ ap' = AprioriInit(transactions, ms, hseed)
  /\ pc' = IF ap'.at = "while" THEN "mining" ELSE "mined"
  /\ UNCHANGED <<transactions, params, hseed, rules, freq_main, abs_main,
                 rules_main, freq_pot, abs_pot, rules_pot, tiers, run, prev>>

(* one test of `while L` and, when it passes, one pass of the body *)
AprioriStep ==
  /\ pc = "mining"
  /\ ap.at = "while"
  /\ ap' = AprioriLevel(ap, transactions, hseed)
  /\ pc' = IF ap'.at = "while" THEN "mining" ELSE "mined"
  /\ UNCHANGED <<transactions, params, hseed, args, rules, freq_main, abs_main,
                 rules_main, freq_pot, abs_pot, rules_pot, tiers, run, prev>>

(* generate_rules on the maps apriori returned *)
GenerateRulesCall ==
  /\ pc = "mined"
  /\ ap.at = "return"
  /\ \E th \in Thresholds, f \in BOOLEAN :
       /\ args' = [args EXCEPT !.min_conf = th.min_conf, !.min_lift = th.min_lift,
                               !.filter_exact_2_only = f]
       /\ rules' = GenerateRules(ap.freq, th.min_conf, th.min_lift, f, hseed)
  /\ pc' = "rules"
  /\ UNCHANGED <<transactions, params, hseed, ap, freq_main, abs_main,
                 rules_main, freq_pot, abs_pot, rules_pot, tiers, run, prev>>

NextApriori ==
  \/ AprioriCall
  \/ AprioriStep
  \/ GenerateRulesCall

SpecApriori ==
  InitApriori /\ [][NextApriori]_vars

(* ---------------------- build_tiers, called directly ------------------- *)
Block(i, j) ==
  SubSeq(ItemOrder, i, j)

(* rules a caller may pass: (antecedent, consequent, support, confidence, lift) *)
RulePool ==
  {<<Block(1, 1), Block(2, 9), <<1, 2>>, <<1, 1>>, <<2, 1>> >>,
   <<Block(10, 10), Block(11, 24), <<1, 4>>, <<1, 2>>, <<2, 1>> >>,
   << <<"x">>, <<"w">>, <<1, 2>>, <<1, 1>>, <<2, 1>> >>,
   << <<"b">>, <<"a">>, <<1, 2>>, <<1, 1>>, <<2, 1>> >>,
   << <<"c", "d">>, <<"e">>, <<1, 4>>, <<1, 2>>, <<2, 1>> >>,
   << <<"d">>, <<"c", "a">>, <<1, 4>>, <<1, 1>>, <<4, 1>> >>}

FreqSamples ==
  {<<>>, << <<{"a"}, <<1, 2>> >>, <<{"y"}, <<1, 1>> >>, <<{"a", "y"}, <<1, 2>> >> >>}

Reverse(s) ==
  [i \in 1..Len(s) |-> s[Len(s) + 1 - i]]

TierHashSeeds ==
  {ItemOrder, Reverse(ItemOrder)}

InitTiers ==
  /\ transactions = <<>>
  /\ hseed \in TierHashSeeds
  /\ params = DefaultParams
  /\ pc = "call"
  /\ args = NoCall
  /\ ap = NoApriori
  /\ rules = NoRules
  /\ freq_main \in FreqSamples
  /\ abs_main = <<>>
  /\ rules_main \in SeqsUpTo(RulePool, MaxMainRules)
  /\ freq_pot = <<>> /\ abs_pot = <<>>
  /\ rules_pot \in SeqsUpTo(RulePool, MaxPotRules)
  /\ tiers = NoTiers
  /\ run = 1
  /\ prev = <<>>

BuildTiersCall ==
  /\ pc = "call"
  /\ tiers' = BuildTiers(rules_main, rules_pot, freq_main, freq_pot, hseed)
  /\ pc' = "done"
  /\ UNCHANGED <<transactions, params, hseed, args, ap, rules, freq_main, abs_main,
                 rules_main, freq_pot, abs_pot, rules_pot, run, prev>>

NextTiers ==
  BuildTiersCall

SpecTiers ==
  InitTiers /\ [][NextTiers]_vars

(* ------------------------- the pipeline of main() ---------------------- *)
(* aggregate_transactions yields one non-empty basket per invoice *)
InvoiceBaskets ==
  (SUBSET BasketItems) \ {{}}

(* AprioriParams: the defaults and three scaled configurations *)
ParamSets ==
  {DefaultParams,
   [min_support |-> <<1, 2>>, min_confidence |-> <<3, 10>>, min_lift |-> <<3, 2>>,
    longtail_min_support |-> <<1, 4>>, longtail_max_support |-> <<1, 2>>],
   [min_support |-> <<1, 1>>, min_confidence |-> <<1, 2>>, min_lift |-> <<1, 1>>,
    longtail_min_support |-> <<1, 2>>, longtail_max_support |-> <<1, 2>>],
   [min_support |-> <<1, 2>>, min_confidence |-> <<0, 1>>, min_lift |-> <<0, 1>>,
    longtail_min_support |-> <<0, 1>>, longtail_max_support |-> <<1, 1>>]}

Init ==
  /\ transactions \in SeqsUpTo(InvoiceBaskets, MaxBaskets)
  /\ hseed \in HashSeeds
  /\ params \in ParamSets
  /\ pc = "start"
  /\ args = NoCall
  /\ ap = NoApriori
  /\ rules = NoRules
  /\ freq_main = <<>> /\ abs_main = <<>> /\ rules_main = <<>>
  /\ freq_pot = <<>> /\ abs_pot = <<>> /\ rules_pot = <<>>
  /\ tiers = NoTiers
  /\ run = 1
  /\ prev = <<>>

(* line 420 *)
MineMain ==
  /\ pc = "start"
  /\ LET r == Apriori(transactions, params.min_support, hseed)
     IN /\ ap' = r
        /\ freq_main' = r.freq
        /\ abs_main' = r.abs_counts
        /\ pc' = IF r.err THEN "crashed" ELSE "mined_main"
  /\ UNCHANGED <<transactions, params, hseed, args, rules, rules_main,
                 freq_pot, abs_pot, rules_pot, tiers, run, prev>>

(* lines 421-423 *)
RulesMain ==
  /\ pc = "mined_main"
  /\ rules_main' = RulesFromFreq(freq_main, params, FALSE, hseed)
  /\ pc' = "ruled_main"
  /\ UNCHANGED <<transactions, params, hseed, args, ap, rules, freq_main, abs_main,
                 freq_pot, abs_pot, rules_pot, tiers, run, prev>>

(* line 426 *)
MinePot ==
  /\ pc = "ruled_main"
  /\ LET r == Apriori(transactions, params.longtail_min_support, hseed)
     IN /\ ap' = r
        /\ freq_pot' = r.freq
        /\ abs_pot' = r.abs_counts
        /\ pc' = IF r.err THEN "crashed" ELSE "mined_pot"
  /\ UNCHANGED <<transactions, params, hseed, args, rules, freq_main, abs_main,
                 rules_main, rules_pot, tiers, run, prev>>

(* lines 427-429 *)
RulesPot ==
  /\ pc = "mined_pot"
  /\ rules_pot' = RulesFromFreq(freq_pot, params, TRUE, hseed)
  /\ pc' = "ruled_pot"
  /\ UNCHANGED <<transactions, params, hseed, args, ap, rules, freq_main, abs_main,
                 rules_main, freq_pot, abs_pot, tiers, run, prev>>

(* lines 443-449 *)
Tiers ==
  /\ pc = "ruled_pot"
  /\ tiers' = BuildTiers(rules_main, rules_pot, freq_main, freq_pot, hseed)
  /\ pc' = "done"
  /\ UNCHANGED <<transactions, params, hseed, args, ap, rules, freq_main, abs_main,
                 rules_main, freq_pot, abs_pot, rules_pot, run, prev>>

Next ==
  \/ MineMain
  \/ RulesMain
  \/ MinePot
  \/ RulesPot
  \/ Tiers

Spec ==
  Init /\ [][Next]_vars

(* the pipeline run a second time on the same baskets and parameters: every
   result is recomputed from scratch, in a process with its own hash order *)
Rerun ==
  /\ pc = "done"
  /\ run = 1
  /\ prev' = [rules_main |-> rules_main, rules_pot |-> rules_pot, tiers |-> tiers]
  /\ run' = 2
  /\ hseed' \in HashSeeds
  /\ pc' = "start"
  /\ ap' = NoApriori
  /\ freq_main' = <<>> /\ abs_main' = <<>> /\ rules_main' = <<>>
  /\ freq_pot' = <<>> /\ abs_pot' = <<>> /\ rules_pot' = <<>>
  /\ tiers' = NoTiers
  /\ UNCHANGED <<transactions, params, args, rules>>

NextTwice ==
  \/ Next
  \/ Rerun

SpecTwice ==
  Init /\ [][NextTwice]_vars

(* ---------------- properties of apriori and generate_rules ------------- *)
NonEmptyItemsets ==
  (SUBSET BasketItems) \ {{}}

(* number of baskets that are supersets of X *)
TrueCount(X) ==
  Cardinality({i \in 1..Len(transactions) : X \subseteq transactions[i]})

Mined ==
  pc \in {"mined", "rules"} /\ ap.at = "return"

MaxBasketSize ==
  IF transactions = <<>> THEN 0
  ELSE CHOOSE m \in 0..Cardinality(BasketItems) :
         /\ \E i \in 1..Len(transactions) : Cardinality(transactions[i]) = m
         /\ \A i \in 1..Len(transactions) : Cardinality(transactions[i]) <= m

MapsExact ==
  /\ DKeys(ap.freq) = DKeys(ap.abs_counts)
  /\ Len(ap.freq) = Cardinality(DKeys(ap.freq))
  /\ Len(ap.abs_counts) = Cardinality(DKeys(ap.abs_counts))
  /\ \A X \in DKeys(ap.freq) :
        /\ X # {}
        /\ DGet(ap.abs_counts, X, 0) = TrueCount(X)
        /\ LET s == DGet(ap.freq, X, RZero)
           IN s[1] * ap.n = TrueCount(X) * s[2]

(* C1, as claimed: with n >= 1 baskets, the maps apriori returns contain every
   non-empty itemset whose support is >= min_support, each mapped to exactly its
   relative support and its basket count, and the two maps have the same keys. *)
C1_EveryFrequentItemsetReturned ==
  (Mined /\ ap.n >= 1) =>
    /\ \A X \in NonEmptyItemsets :
          RLeq(args.min_support, <<TrueCount(X), ap.n>>) => DHas(ap.freq, X)
    /\ MapsExact

(* C1, amended: with n >= 1 baskets, the maps apriori returns contain every
   non-empty itemset that is contained in at least one basket and whose support is
   >= min_support, each mapped to exactly its relative support and its basket
   count, and the two maps have the same keys. *)
C1_EveryOccurringFrequentItemsetReturned ==
  (Mined /\ ap.n >= 1) =>
    /\ \A X \in NonEmptyItemsets :
          (TrueCount(X) >= 1 /\ RLeq(args.min_support, <<TrueCount(X), ap.n>>))
             => DHas(ap.freq, X)
    /\ MapsExact

C1_Witness ==
  /\ Mined /\ ap.n >= 2
  /\ RLess(RZero, args.min_support)
  /\ \E X \in DKeys(ap.freq) : Cardinality(X) >= 2
  /\ \E Y \in NonEmptyItemsets : TrueCount(Y) >= 1 /\ ~DHas(ap.freq, Y)

(* support(A union B) / support(A) >= t, on the values of the map *)
ConfAtLeast(sxy, sx, t) ==
  sxy[1] * sx[2] * t[2] >= t[1] * sxy[2] * sx[1]

(* (support(A union B) / support(A)) / support(B) >= t *)
LiftAtLeast(sxy, sx, sy, t) ==
  sxy[1] * sx[2] * sy[2] * t[2] >= t[1] * sxy[2] * sx[1] * sy[1]

(* the splits (A, B) generate_rules has to emit for the map F *)
ExpectedSplits(F, min_conf, min_lift, filter_exact_2_only) ==
  {ab \in UNION {{<<A, X \ A>> : A \in (SUBSET X) \ {{}, X}} : X \in DKeys(F)} :
     LET A == ab[1]
         B == ab[2]
         sxy == DGet(F, A \cup B, RZero)
         sx == DGet(F, A, RZero)
         sy == DGet(F, B, RZero)
     IN /\ filter_exact_2_only => Cardinality(A \cup B) = 2
        /\ sx[1] # 0 /\ sy[1] # 0
        /\ ConfAtLeast(sxy, sx, min_conf)
        /\ LiftAtLeast(sxy, sx, sy, min_lift)}

RuleSplit(r) ==
  <<SeqToSet(r[1]), SeqToSet(r[2])>>

(* C2: generate_rules emits exactly one rule for every split of an itemset of size
   >= 2 (exactly 2 under filter_exact_2_only) into a non-empty antecedent A and its
   non-empty complement B with confidence >= min_conf and lift >= min_lift, and no
   other rule; each rule carries support = support(A u B), confidence =
   support(A u B) / support(A) and lift = confidence / support(B). *)
C2_RulesAreExactlyTheQualifyingSplits ==
  pc = "rules" =>
    LET F == ap.freq
        R == rules.rules
        E == ExpectedSplits(F, args.min_conf, args.min_lift, args.filter_exact_2_only)
    IN /\ \A i \in 1..Len(R) : RuleSplit(R[i]) \in E
       /\ \A ab \in E : Cardinality({i \in 1..Len(R) : RuleSplit(R[i]) = ab}) = 1
       /\ \A i \in 1..Len(R) :
             LET sxy == DGet(F, SeqToSet(R[i][1]) \cup SeqToSet(R[i][2]), RZero)
                 sx == DGet(F, SeqToSet(R[i][1]), RZero)
                 sy == DGet(F, SeqToSet(R[i][2]), RZero)
                 sup == R[i][3]
                 conf == R[i][4]
                 lift == R[i][5]
             IN /\ sup[1] * sxy[2] = sxy[1] * sup[2]
                /\ conf[1] * sx[1] * sxy[2] = sxy[1] * sx[2] * conf[2]
                /\ lift[1] * sy[1] * conf[2] = conf[1] * sy[2] * lift[2]

C2_Witness ==
  /\ pc = "rules"
  /\ ~args.filter_exact_2_only
  /\ \E i \in 1..Len(rules.rules) :
        Len(rules.rules[i][1]) + Len(rules.rules[i][2]) = 3
  /\ \E X \in DKeys(ap.freq) : \E A \in (SUBSET X) \ {{}, X} :
        \A i \in 1..Len(rules.rules) : RuleSplit(rules.rules[i]) # <<A, X \ A>>

(* C9: the support map apriori returns is downward closed and anti-monotone: for
   every itemset B in it and every non-empty subset A of B, A is in it and
   support(A) >= support(B); so generate_rules on that map, with n >= 1, finds
   both lookups present and non-zero and never takes the skip branch. *)
C9_DownwardClosedAndNoSkip ==
  /\ Mined =>
        \A B \in DKeys(ap.freq) : \A A \in (SUBSET B) \ {{}} :
          /\ DHas(ap.freq, A)
          /\ RLeq(DGet(ap.freq, B, RZero), DGet(ap.freq, A, RZero))
          /\ RLess(RZero, DGet(ap.freq, A, RZero))
  /\ (pc = "rules" /\ ap.n >= 1) => rules.skipped = 0

C9_Witness ==
  /\ pc = "rules" /\ ap.n >= 2
  /\ rules.rules # <<>>
  /\ \E B \in DKeys(ap.freq) : \E A \in (SUBSET B) \ {{}, B} :
        RLess(DGet(ap.freq, B, RZero), DGet(ap.freq, A, RZero))
  /\ \E B \in DKeys(ap.freq) : Cardinality(B) = 3

KBoundClaimed ==
  pc \in {"mining", "mined", "rules"} => ap.k <= MaxBasketSize + 1

(* C10, as claimed: the level counter k never exceeds (size of the largest
   basket) + 1. *)
C10_KAtMostLargestBasketPlusOne ==
  KBoundClaimed

KBound ==
  pc \in {"mining", "mined", "rules"} => ap.k <= Max2(2, MaxBasketSize + 1)

(* a pass of the loop either leaves the loop or raises k by one *)
PassAdvances ==
  (pc = "mining" /\ pc' = "mining") => ap'.k = ap.k + 1

(* C10, amended: the level-wise loop of apriori terminates: the level counter k,
   which starts at 2, never exceeds max(2, (size of the largest basket) + 1), and
   every pass of the loop that does not leave it raises k by one; at a level
   larger than every basket no candidate is contained in any basket and the
   frequent set of that level is empty. *)
C10_LoopTerminatesWithinBound ==
  /\ []KBound
  /\ [][PassAdvances]_vars

C10_Witness ==
  /\ pc = "mined" /\ ap.at = "return"
  /\ ap.k = 4
  /\ MaxBasketSize = 3

(* ------------------------ properties of build_tiers -------------------- *)
TierNames ==
  {"tier1", "tier2", "tier3", "tier4", "tier5"}

(* C3: the five lists build_tiers returns are pairwise disjoint: no item appears
   in two different tiers. *)
C3_TiersPairwiseDisjoint ==
  pc = "done" =>
    \A s \in TierNames : \A t \in TierNames \ {s} :
      SeqToSet(tiers[s]) \cap SeqToSet(tiers[t]) = {}

C3_Witness ==
  /\ pc = "done"
  /\ \A t \in TierNames : tiers[t] # <<>>
  /\ \E i \in 1..Len(rules_main) :
        SeqToSet(rules_main[i][2]) \cap SeqToSet(tiers.tier1) # {}
  /\ \E i \in 1..Len(rules_pot) :
        SeqToSet(rules_pot[i][2]) \cap SeqToSet(tiers.tier3) # {}

(* C4: tier1 holds at most 3 items and each of tier2..tier5 at most 5; a tier may
   be shorter than its cap or empty, never longer. *)
C4_TierCaps ==
  pc = "done" =>
    /\ Len(tiers.tier1) <= 3
    /\ \A t \in TierNames \ {"tier1"} : Len(tiers[t]) <= 5

C4_Witness ==
  /\ pc = "done"
  /\ Len(tiers.tier1) = 3
  /\ \A t \in TierNames \ {"tier1"} : Len(tiers[t]) = 5
  /\ \E i \in 1..Len(rules_pot) : \E x \in SeqToSet(rules_pot[i][2]) :
        \A t \in TierNames : x \notin SeqToSet(tiers[t])

(* x ranks before y: a higher score, or the same score and the smaller string *)
RanksBefore(x, y, D) ==
  \/ RLess(DGet(D, y, RZero), DGet(D, x, RZero))
  \/ /\ DGet(D, x, RZero) = DGet(D, y, RZero)
     /\ StrLess(x, y)

(* seq is the first cap candidates of D in the order of RanksBefore *)
RankedTop(seq, D, cap) ==
  /\ SeqToSet(seq) \subseteq DKeys(D)
  /\ Len(seq) = IF Len(D) < cap THEN Len(D) ELSE cap
  /\ \A i \in 1..Len(seq) : \A j \in 1..Len(seq) :
        i < j => RanksBefore(seq[i], seq[j], D)
  /\ \A y \in DKeys(D) \ SeqToSet(seq) : \A i \in 1..Len(seq) :
        RanksBefore(seq[i], y, D)

(* C5: in every tier build_tiers returns, items are ranked by descending score,
   and items of equal score are ordered, and at the cap selected, by the natural
   string order of the items, whatever order the rules and their members were
   met in. *)
C5_TiesByStringOrder ==
  pc = "done" =>
    LET rules_all == rules_main \o rules_pot
        scores == ComputeItemScores(rules_all, hseed, <<>>)
        t1 == SeqToSet(tiers.tier1)
        t12 == t1 \cup SeqToSet(tiers.tier2)
        t123 == t12 \cup SeqToSet(tiers.tier3)
        t1234 == t123 \cup SeqToSet(tiers.tier4)
    IN /\ RankedTop(tiers.tier1, scores, 3)
       /\ RankedTop(tiers.tier2, PartnerScores(rules_all, t1, hseed, <<>>), 5)
       /\ RankedTop(tiers.tier3, Excluding(scores, t12), 5)
       /\ RankedTop(tiers.tier4,
                    Excluding(ComputeItemScores(rules_pot, hseed, <<>>), t123), 5)
       /\ RankedTop(tiers.tier5,
                    Excluding(ConsequentScores(rules_all, <<>>), t1234), 5)

(* ------------------------ properties of the pipeline ------------------- *)
(* C6: the pipeline run twice on the same baskets and parameters yields the same
   rule lists, rule for rule in the same order, and the same tier lists, whatever
   order the iteration over sets takes in each run. *)
C6_SecondRunIdentical ==
  (run = 2 /\ pc = "done") =>
    /\ rules_main = prev.rules_main
    /\ rules_pot = prev.rules_pot
    /\ tiers = prev.tiers

(* C7: with zero baskets apriori returns empty maps and raises no division error,
   rules_from_freq yields empty main and potential rule lists and build_tiers
   returns five empty tiers; build_tiers given two empty rule lists returns five
   empty tiers. *)
C7_EmptyInputEmptyResults ==
  /\ transactions = <<>> =>
        /\ pc # "crashed"
        /\ ~ap.err
        /\ freq_main = <<>> /\ abs_main = <<>> /\ rules_main = <<>>
        /\ freq_pot = <<>> /\ abs_pot = <<>> /\ rules_pot = <<>>
        /\ tiers = NoTiers
  /\ (pc = "done" /\ rules_main = <<>> /\ rules_pot = <<>>) => tiers = NoTiers

C7_Witness ==
  /\ pc = "done"
  /\ transactions = <<>>
  /\ ap.n = 0 /\ ap.at = "return"
  /\ tiers = NoTiers

RulePairs(rs) ==
  {<<rs[i][1], rs[i][2]>> : i \in 1..Len(rs)}

(* C8: when longtail_max_support <= min_support every rule of the potential list
   has support below min_support, so no rule (antecedent, consequent) is in both
   the main and the potential list and none is counted twice in the combined rule
   set build_tiers scores. *)
C8_PotentialBelowPrimaryThreshold ==
  (pc \in {"ruled_pot", "done"}
     /\ RLeq(params.longtail_max_support, params.min_support)) =>
    /\ \A i \in 1..Len(rules_pot) : RLess(rules_pot[i][3], params.min_support)
    /\ RulePairs(rules_main) \cap RulePairs(rules_pot) = {}
    /\ Cardinality(RulePairs(rules_main \o rules_pot))
         = Len(rules_main) + Len(rules_pot)

====
